---- MODULE Spec2Model ----
(***************************************************************************)
(* Weather retrieval and weekly pattern analysis of Prediccion-Climatica:  *)
(* WeatherService (backend/weather_service.py) and WeatherPredictions      *)
(* (backend/weather_predictions.py).                                       *)
(*                                                                         *)
(* Numbers.  Python floats are modelled as fixed-point integers:           *)
(*   - provider numbers (temp, humidity, wind speed, rain) in hundredths;  *)
(*   - normalised numbers handled by the analyser (temperatura, humedad,   *)
(*     viento as floats) in tenths, written F(n) for the float n;          *)
(*   - "humedad" of a forecast entry is a Python int (whole percent).      *)
(* Python dicts are records whose DOMAIN is the set of keys present.       *)
(***************************************************************************)
EXTENDS Integers, Sequences, FiniteSets, TLC

VARIABLES
    op,             \* the public operation being executed, "none" before a call
    lat, lon,       \* its arguments, in whole degrees
    pc,             \* position of the call: idle, request, sleep, response, dias, helper, tendencia, done
    attempts,       \* _make_request: attempts
    last_error,     \* _make_request: last_error ("None" before any failure)
    delays,         \* the time.sleep calls made so far: the seconds slept by each
    outcomes,       \* what requests.get / raise_for_status did on each attempt so far
    data,           \* the payload _make_request returned (<<>> while there is none)
    seen_dates,     \* get_forecast: seen_dates when the loop ended
    sources,        \* history: the position in data["list"] each forecast entry was built from
    datos_diarios,  \* analizar_patron_semanal: the forecast entries being processed
    dia_idx,        \* analizar_patron_semanal: number of entries the loop has consumed
    temperaturas, humedades, vientos,   \* analizar_patron_semanal: the three series
    analisis_semanal,                   \* analizar_patron_semanal: the report under construction
    args,           \* the arguments of a helper called on its own (<<>> otherwise)
    result,         \* what the operation returned or raised
    anterior        \* history: the previous call, its inputs and what it answered

vars == <<op, lat, lon, pc, attempts, last_error, delays, outcomes, data,
          seen_dates, sources,
          datos_diarios, dia_idx, temperaturas, humedades, vientos,
          analisis_semanal, args, result, anterior>>

-----------------------------------------------------------------------------
(* Python helpers *)

\* the float n, in tenths
F(n) == n * 10

\* floor division for a positive divisor
FloorDiv(n, d) == IF n >= 0 THEN n \div d ELSE -((-n + d - 1) \div d)

\* round(n / d) to the nearest integer, ties to even (Python's round), d > 0
RoundDiv(n, d) ==
    LET q == FloorDiv(n, d)
        r == n - q * d
    IN  IF 2 * r < d THEN q
        ELSE IF 2 * r > d THEN q + 1
        ELSE IF q % 2 = 0 THEN q ELSE q + 1

\* round(float(x), 1) of a number given in hundredths: the result in tenths
Round1(x) == RoundDiv(x, 10)

\* int(x) of a number given in hundredths: truncation toward zero
PyInt(x) == IF x >= 0 THEN x \div 100 ELSE -((-x) \div 100)

\* round(float(speed) * 3.6, 1): m/s in hundredths to km/h in tenths
KmH(speed) == RoundDiv(speed * 36, 100)

\* dict.get(key, default)
Get(d, key, default) == IF key \in DOMAIN d THEN d[key] ELSE default

\* the empty dict {}
EmptyDict == [k \in {} |-> 0]

-----------------------------------------------------------------------------
(* Results of an operation *)

NoResult == [status |-> "none"]
NoCall == [op |-> "none"]
Returned(v) == [status |-> "ok", value |-> v]
Raised(type, msg) == [status |-> "error", type |-> type, msg |-> msg]

-----------------------------------------------------------------------------
(* WeatherService.__init__ *)

max_retries == 3
retry_delay == 1

-----------------------------------------------------------------------------
(* WeatherService._make_request *)

\* What one attempt (requests.get, raise_for_status, json) can do.
OkOutcome == [kind |-> "ok"]
TimeoutOutcome == [kind |-> "Timeout", text |-> "Read timed out"]
ConnectionOutcome == [kind |-> "ConnectionError", text |-> "Connection refused"]
HTTPOutcome(code) == [kind |-> "HTTPError", text |-> "HTTP status", code |-> code]

IsNon2xx(o) == o.kind = "HTTPError"
IsTransport(o) == o.kind \in {"Timeout", "ConnectionError"}

\* variant of ExceptClause: an HTTPError is not caught
ExceptClauseNoRetryOnStatus(o) ==
    CASE o.kind = "ok" -> "return"
      [] o.kind = "Timeout" -> "Timeout"
      [] o.kind = "ConnectionError" -> "RequestException"
      [] OTHER -> "propagate"

\* The except clause that handles the attempt's outcome: none for a
\* response that passes raise_for_status; Timeout is listed first;
\* HTTPError and ConnectionError are RequestException subclasses.
ExceptClause(o) ==
    CASE o.kind = "ok" -> "return"
      [] o.kind = "Timeout" -> "Timeout"
      [] o.kind \in {"ConnectionError", "HTTPError"} -> "RequestException"
      [] OTHER -> "propagate"

\* str(e) of a RequestException
StrOf(o) == IF o.kind = "HTTPError" THEN <<o.text, o.code>> ELSE <<o.text>>

\* variant of LastError: only the first error is kept
KeepFirstError(prev, o) ==
    IF prev # <<"None">> THEN prev
    ELSE IF ExceptClause(o) = "Timeout" THEN <<"Timeout al conectar con el servicio">>
    ELSE StrOf(o)

\* the value assigned to last_error by the clause (prev is overwritten)
LastError(prev, o) ==
    IF ExceptClause(o) = "Timeout" THEN <<"Timeout al conectar con el servicio">>
    ELSE StrOf(o)

\* the message of the RequestException raised after the loop
ExhaustedMsg(err) == <<"Error despues de", max_retries, "intentos">> \o err

\* while attempts < self.max_retries
LoopGuard(a) == a < max_retries

\* variant of SleepGuard: the delay is taken after every failed attempt
SleepGuardAlways(a) == TRUE

\* if attempts < self.max_retries: time.sleep(self.retry_delay)
SleepGuard(a) == a < max_retries

\* A public operation enters _make_request: attempts = 0, last_error = None.
EnterRequest ==
    /\ attempts' = 0
    /\ last_error' = <<"None">>
    /\ pc' = IF LoopGuard(0) THEN "request" ELSE "done"
    /\ result' = IF LoopGuard(0) THEN NoResult
                 ELSE Raised("RequestException", ExhaustedMsg(<<"None">>))

\* One iteration of the while loop, up to the sleep: the attempt, the except
\* clause, attempts += 1, and the raise after the loop once the guard fails.
\* Outcomes: what the provider may do; Payloads[op]: what it may answer.
make_request_attempt(Outcomes, Payloads) ==
    /\ pc = "request"
    /\ \E o \in Outcomes :
        /\ outcomes' = Append(outcomes, o)
        /\ CASE ExceptClause(o) = "return" ->
                 /\ \E payload \in Payloads[op] : data' = <<payload>>
                 /\ pc' = "response"
                 /\ UNCHANGED <<attempts, last_error, result>>
             [] ExceptClause(o) \in {"Timeout", "RequestException"} ->
                 /\ last_error' = LastError(last_error, o)
                 /\ attempts' = attempts + 1
                 /\ pc' = IF SleepGuard(attempts') THEN "sleep"
                          ELSE IF LoopGuard(attempts') THEN "request"
                          ELSE "done"
                 /\ result' = IF SleepGuard(attempts') \/ LoopGuard(attempts') THEN result
                              ELSE Raised("RequestException", ExhaustedMsg(last_error'))
                 /\ UNCHANGED data
             [] OTHER ->
                 /\ pc' = "done"
                 /\ result' = Raised(o.kind, StrOf(o))
                 /\ UNCHANGED <<attempts, last_error, data>>
    /\ UNCHANGED anterior
    /\ UNCHANGED <<op, lat, lon, delays, seen_dates, sources, datos_diarios, dia_idx,
                   temperaturas, humedades, vientos, analisis_semanal, args>>

\* time.sleep(self.retry_delay), then back to the loop guard.
make_request_sleep ==
    /\ pc = "sleep"
    /\ delays' = Append(delays, retry_delay)
    /\ pc' = IF LoopGuard(attempts) THEN "request" ELSE "done"
    /\ result' = IF LoopGuard(attempts) THEN result
                 ELSE Raised("RequestException", ExhaustedMsg(last_error))
    /\ UNCHANGED anterior
    /\ UNCHANGED <<op, lat, lon, attempts, last_error, outcomes, data, seen_dates, sources,
                   datos_diarios, dia_idx, temperaturas, humedades, vientos,
                   analisis_semanal, args>>

-----------------------------------------------------------------------------
(* WeatherService.get_current_weather *)

\* all(key in data.get("main", {}) for key in ["temp", "humidity"])
MainComplete(d) ==
    /\ "temp" \in DOMAIN Get(d, "main", EmptyDict)
    /\ "humidity" \in DOMAIN Get(d, "main", EmptyDict)

\* data["weather"] is truthy: present and not an empty list
HasWeather(d) == "weather" \in DOMAIN d /\ d["weather"] # <<>>

\* the handler of (KeyError, ValueError, TypeError) at the end of the method
ProcessingError(cause) ==
    Raised("ValueError", <<"Error al procesar datos del clima", cause>>)

\* The body after _make_request returned d.  The dict is built field by
\* field, so the first failing lookup decides the error.  The timestamp
\* field (datetime.now()) is left out: the clock is not modelled.
CurrentWeather(d) ==
    IF ~MainComplete(d)
    THEN ProcessingError("Datos incompletos en la respuesta de la API")
    ELSE IF "wind" \notin DOMAIN d
    THEN ProcessingError("KeyError wind")
    ELSE IF HasWeather(d) /\ "description" \notin DOMAIN d["weather"][1]
    THEN ProcessingError("KeyError description")
    ELSE IF HasWeather(d) /\ "id" \notin DOMAIN d["weather"][1]
    THEN ProcessingError("KeyError id")
    ELSE Returned([
        temperatura |-> Round1(d["main"]["temp"]),
        humedad |-> PyInt(d["main"]["humidity"]),
        viento |-> KmH(Get(d["wind"], "speed", 0)),
        lluvia |-> Get(Get(d, "rain", EmptyDict), "1h", 0),
        condicion |-> IF HasWeather(d) THEN d["weather"][1]["description"]
                      ELSE "desconocido",
        condicion_id |-> IF HasWeather(d) THEN d["weather"][1]["id"] ELSE 800])

get_current_weather_call(Lats, Lons) ==
    /\ pc = "idle"
    /\ op' = "get_current_weather"
    /\ lat' \in Lats
    /\ lon' \in Lons
    /\ EnterRequest
    /\ UNCHANGED anterior
    /\ UNCHANGED <<delays, outcomes, data, seen_dates, sources, datos_diarios, dia_idx,
                   temperaturas, humedades, vientos, analisis_semanal, args>>

get_current_weather_body ==
    /\ pc = "response"
    /\ op = "get_current_weather"
    /\ result' = CurrentWeather(data[1])
    /\ pc' = "done"
    /\ UNCHANGED anterior
    /\ UNCHANGED <<op, lat, lon, attempts, last_error, delays, outcomes, data,
                   seen_dates, sources,
                   datos_diarios, dia_idx, temperaturas, humedades, vientos,
                   analisis_semanal, args>>

-----------------------------------------------------------------------------
(* WeatherService.get_forecast *)

\* JSON null (Python None) where a dict is expected
Null == [py_none |-> TRUE]
IsNone(v) == "py_none" \in DOMAIN v

\* datetime.fromtimestamp(item["dt"]): dt is modelled in whole hours of
\* local time since the epoch; strftime("%Y-%m-%d") names the day number.
DateStr(dt) == dt \div 24
Hour(dt) == dt % 24
\* datetime.weekday(): Monday is 0; day 0 (1970-01-01) was a Thursday
Weekday(dt) == ((dt \div 24) + 3) % 7

_get_day_name(weekday) ==
    CASE weekday = 0 -> "Lunes"
      [] weekday = 1 -> "Martes"
      [] weekday = 2 -> "Miercoles"
      [] weekday = 3 -> "Jueves"
      [] weekday = 4 -> "Viernes"
      [] weekday = 5 -> "Sabado"
      [] weekday = 6 -> "Domingo"
      [] OTHER -> "Desconocido"

\* variant of MiddayHours: one hour more on each side
MiddayHoursWide == {10, 11, 12, 13, 14}

\* dt.hour in [11, 12, 13]
MiddayHours == {11, 12, 13}

\* variant of Take: seen_dates is not consulted
TakeIgnoringSeen(dt, seen) == Hour(dt) \in MiddayHours

\* if dt.hour in [11, 12, 13] and date_str not in seen_dates
Take(dt, seen) == Hour(dt) \in MiddayHours /\ DateStr(dt) \notin seen

\* The forecast dict built from one item, or the exception its construction
\* raises; the fields are evaluated in the order they are written.
ForecastEntry(item) ==
    LET dt == item["dt"] IN
    IF "main" \notin DOMAIN item THEN Raised("KeyError", "main")
    ELSE IF "temp" \notin DOMAIN item["main"] THEN Raised("KeyError", "temp")
    ELSE IF "humidity" \notin DOMAIN item["main"] THEN Raised("KeyError", "humidity")
    ELSE IF "wind" \notin DOMAIN item THEN Raised("KeyError", "wind")
    ELSE IF IsNone(item["wind"]) THEN Raised("AttributeError", "NoneType get")
    ELSE IF HasWeather(item) /\ "description" \notin DOMAIN item["weather"][1]
    THEN Raised("KeyError", "description")
    ELSE IF HasWeather(item) /\ "id" \notin DOMAIN item["weather"][1]
    THEN Raised("KeyError", "id")
    ELSE Returned([
        fecha |-> DateStr(dt),
        dia |-> _get_day_name(Weekday(dt)),
        temperatura |-> Round1(item["main"]["temp"]),
        humedad |-> PyInt(item["main"]["humidity"]),
        viento |-> KmH(Get(item["wind"], "speed", 0)),
        \* float(rain 3h) / 3, kept as numerator (hundredths) and denominator
        lluvia |-> <<Get(Get(item, "rain", EmptyDict), "3h", 0), 3>>,
        condicion |-> IF HasWeather(item) THEN item["weather"][1]["description"]
                      ELSE "desconocido",
        condicion_id |-> IF HasWeather(item) THEN item["weather"][1]["id"] ELSE 800])

\* variant of Skipped: no exception is caught inside the loop
SkippedNothing(type) == FALSE

\* except (KeyError, ValueError, TypeError): warning, continue
Skipped(type) == type \in {"KeyError", "ValueError", "TypeError"}

\* variant of SeenAfter: the date is marked once its entry has been built
SeenAfterEntry(seen, dt, built) == IF built THEN seen \cup {DateStr(dt)} ELSE seen

\* seen_dates.add(date_str) is the first statement after the test, ahead of
\* the forecast dict: the date is marked whether or not the entry is built
SeenAfter(seen, dt, built) == seen \cup {DateStr(dt)}

\* if len(daily_forecasts) >= 5: break
Enough(daily) == Len(daily) >= 5

\* The for loop from item i on: the lists when it ends, and the exception
\* that left it, if any.
RECURSIVE ForecastLoop(_, _, _, _, _)
ForecastLoop(list, i, daily, seen, src) ==
    IF i > Len(list)
    THEN [daily_forecasts |-> daily, seen_dates |-> seen, sources |-> src, raised |-> <<>>]
    ELSE LET item == list[i] IN
         IF "dt" \notin DOMAIN item
         THEN IF Skipped("KeyError")
              THEN ForecastLoop(list, i + 1, daily, seen, src)
              ELSE [daily_forecasts |-> daily, seen_dates |-> seen, sources |-> src,
                    raised |-> <<Raised("KeyError", "dt")>>]
         ELSE IF ~Take(item["dt"], seen)
         THEN ForecastLoop(list, i + 1, daily, seen, src)
         ELSE LET e == ForecastEntry(item)
                  seen2 == SeenAfter(seen, item["dt"], e.status = "ok")
              IN  IF e.status = "ok"
                  THEN LET daily2 == Append(daily, e.value)
                           src2 == Append(src, i)
                       IN  IF Enough(daily2)
                           THEN [daily_forecasts |-> daily2, seen_dates |-> seen2,
                                 sources |-> src2, raised |-> <<>>]
                           ELSE ForecastLoop(list, i + 1, daily2, seen2, src2)
                  ELSE IF Skipped(e.type)
                  THEN ForecastLoop(list, i + 1, daily, seen2, src)
                  ELSE [daily_forecasts |-> daily, seen_dates |-> seen2, sources |-> src,
                        raised |-> <<e>>]

\* if "list" not in data or not data["list"]
NoList(d) == "list" \notin DOMAIN d \/ d["list"] = <<>>

\* The method after _make_request returned d: what it returns or raises,
\* with the loop's final seen_dates and the positions the entries came from.
Forecast(d) ==
    IF NoList(d)
    THEN [result |-> Raised("ValueError", "No se encontraron datos de pronostico"),
          seen_dates |-> {}, sources |-> <<>>]
    ELSE LET r == ForecastLoop(d["list"], 1, <<>>, {}, <<>>) IN
         [result |-> IF r.raised # <<>> THEN r.raised[1]
                     ELSE IF r.daily_forecasts = <<>>
                     THEN Raised("ValueError", "No se pudieron procesar los datos del pronostico")
                     ELSE Returned([pronostico |-> r.daily_forecasts]),
          seen_dates |-> r.seen_dates,
          sources |-> r.sources]

get_forecast_call(Lats, Lons) ==
    /\ pc = "idle"
    /\ op' = "get_forecast"
    /\ lat' \in Lats
    /\ lon' \in Lons
    /\ EnterRequest
    /\ UNCHANGED anterior
    /\ UNCHANGED <<delays, outcomes, data, seen_dates, sources, datos_diarios, dia_idx,
                   temperaturas, humedades, vientos, analisis_semanal, args>>

get_forecast_body ==
    /\ pc = "response"
    /\ op = "get_forecast"
    /\ LET f == Forecast(data[1]) IN
        /\ result' = f.result
        /\ seen_dates' = f.seen_dates
        /\ sources' = f.sources
    /\ pc' = "done"
    /\ UNCHANGED anterior
    /\ UNCHANGED <<op, lat, lon, attempts, last_error, delays, outcomes, data,
                   datos_diarios, dia_idx, temperaturas, humedades, vientos,
                   analisis_semanal, args>>

-----------------------------------------------------------------------------
(* WeatherPredictions: the per-day helpers.  Arguments are floats in tenths. *)

\* variant of _categorizar_temperatura: 25.0 is still moderada
CategorizarTemperaturaHasta25(temp) ==
    IF temp < F(15) THEN "fria"
    ELSE IF temp <= F(25) THEN "moderada"
    ELSE "caliente"

_categorizar_temperatura(temp) ==
    IF temp < F(15) THEN "fria"
    ELSE IF temp < F(25) THEN "moderada"
    ELSE "caliente"

_categorizar_humedad(hum) ==
    IF hum < F(40) THEN "baja"
    ELSE IF hum < F(70) THEN "moderada"
    ELSE "alta"

_categorizar_viento(viento) ==
    IF viento < F(10) THEN "suave"
    ELSE IF viento < F(20) THEN "moderado"
    ELSE "fuerte"

\* variant of NivelRiesgo: medio up to 4
NivelRiesgoMedioHasta4(riesgo) ==
    IF riesgo <= 1 THEN "bajo" ELSE IF riesgo <= 4 THEN "medio" ELSE "alto"

\* nivel_riesgo = "bajo" if riesgo <= 1 else "medio" if riesgo <= 3 else "alto"
NivelRiesgo(riesgo) ==
    IF riesgo <= 1 THEN "bajo" ELSE IF riesgo <= 3 THEN "medio" ELSE "alto"

\* the contribution of each variable: <<points, factor labels>>
RiesgoTemperatura(temp) ==
    IF temp > F(30) THEN <<2, <<"temperatura alta">> >>
    ELSE IF temp < F(10) THEN <<2, <<"temperatura baja">> >>
    ELSE <<0, <<>> >>

\* variant of RiesgoHumedad: hum >= 80
RiesgoHumedadInclusive(hum) ==
    IF hum >= F(80) THEN <<2, <<"humedad alta">> >>
    ELSE IF hum < F(30) THEN <<1, <<"humedad baja">> >>
    ELSE <<0, <<>> >>

RiesgoHumedad(hum) ==
    IF hum > F(80) THEN <<2, <<"humedad alta">> >>
    ELSE IF hum < F(30) THEN <<1, <<"humedad baja">> >>
    ELSE <<0, <<>> >>

RiesgoViento(viento) ==
    IF viento > F(25) THEN <<2, <<"viento fuerte">> >>
    ELSE <<0, <<>> >>

_evaluar_riesgo_cultivo(temp, hum, viento) ==
    LET t == RiesgoTemperatura(temp)
        h == RiesgoHumedad(hum)
        v == RiesgoViento(viento)
        riesgo == t[1] + h[1] + v[1]
    IN  [nivel |-> NivelRiesgo(riesgo),
         factores |-> t[2] \o h[2] \o v[2],
         valor |-> riesgo]

-----------------------------------------------------------------------------
(* WeatherPredictions._calcular_tendencia and _interpretar_tendencia *)

RECURSIVE SumSeq(_)
SumSeq(q) == IF q = <<>> THEN 0 ELSE q[1] + SumSeq(Tail(q))

\* sum of (i - 1) * q[i]: the day index is 0-based
RECURSIVE SumIndexed(_, _)
SumIndexed(q, i) ==
    IF i > Len(q) THEN 0 ELSE (i - 1) * q[i] + SumIndexed(q, i + 1)

RECURSIVE SumSquares(_)
SumSquares(n) == IF n = 0 THEN 0 ELSE (n - 1) * (n - 1) + SumSquares(n - 1)

\* An element of a list handed to _calcular_tendencia: a float in tenths,
\* None, or a string
Float(x) == [float |-> x]
Str(x) == [str |-> x]
Floats(q) == [i \in 1..Len(q) |-> Float(q[i])]

\* x is not None and isinstance(x, (int, float))
IsNumber(x) == "float" \in DOMAIN x

\* The coefficient LinearRegression fits to y over X = 0..n-1, as the
\* exact fraction num/den (den > 0) in tenths per day; 0.0 is <<0, 1>>.
_calcular_tendencia(datos_historicos) ==
    LET validos == SelectSeq(datos_historicos, IsNumber)
        datos_limpios == [i \in 1..Len(validos) |-> validos[i].float]
        n == Len(datos_limpios)
        sx == (n * (n - 1)) \div 2
    IN  IF Len(datos_historicos) < 2 THEN <<0, 1>>
        ELSE IF n < 2 THEN <<0, 1>>
        ELSE <<n * SumIndexed(datos_limpios, 1) - sx * SumSeq(datos_limpios),
               n * SumSquares(n) - sx * sx>>

\* tendencia > p, for p a float in tenths
TrendAbove(tendencia, p) == tendencia[1] > p * tendencia[2]
TrendBelow(tendencia, p) == tendencia[1] < p * tendencia[2]

\* variant of _interpretar_tendencia: a slope of exactly 0.1 is still estable
InterpretarTendenciaInclusive(tendencia) ==
    IF ~TrendAbove(tendencia, 1) /\ ~TrendBelow(tendencia, -1) THEN "estable"
    ELSE IF TrendAbove(tendencia, 0) THEN "aumentando"
    ELSE "disminuyendo"

\* abs(tendencia) < 0.1 is -0.1 < tendencia < 0.1; 0.1 in tenths is 1
_interpretar_tendencia(tendencia) ==
    IF TrendBelow(tendencia, 1) /\ TrendAbove(tendencia, -1) THEN "estable"
    ELSE IF TrendAbove(tendencia, 0) THEN "aumentando"
    ELSE "disminuyendo"

-----------------------------------------------------------------------------
(* WeatherPredictions._generar_recomendaciones and _generar_resumen *)

\* any(h > 80 for h in humedades)
AnyHumedadAlta(hums) == \E i \in 1..Len(hums) : hums[i] > F(80)

\* variant of AnyVientoFuerte: the threshold of the risk score, 25
AnyVientoFuerteDesde25(vts) == \E i \in 1..Len(vts) : vts[i] > F(25)

\* any(v > 30 for v in vientos)
AnyVientoFuerte(vts) == \E i \in 1..Len(vts) : vts[i] > F(30)

AlertaHongos ==
    [tipo |-> "hongos", nivel |-> "precaucion",
     mensaje |-> "Riesgo de desarrollo de hongos por alta humedad"]

AlertaViento ==
    [tipo |-> "viento", nivel |-> "advertencia",
     mensaje |-> "Vientos fuertes pueden afectar los cultivos"]

RecomendacionRiego ==
    [tipo |-> "riego",
     mensaje |-> "Aumentar frecuencia de riego por tendencia al alza en temperaturas"]

\* the lists the method appends to analisis["recomendaciones"] and
\* ["alertas"]; tendencia_temp > 0.5, and 0.5 in tenths is 5
Recomendaciones(temps) ==
    IF TrendAbove(_calcular_tendencia(Floats(temps)), 5) THEN <<RecomendacionRiego>> ELSE <<>>

Alertas(hums, vts) ==
    (IF AnyHumedadAlta(hums) THEN <<AlertaHongos>> ELSE <<>>)
    \o (IF AnyVientoFuerte(vts) THEN <<AlertaViento>> ELSE <<>>)

\* round(sum(xs) / len(xs), 1) if xs else 0
Promedio(xs) == IF xs = <<>> THEN 0 ELSE RoundDiv(SumSeq(xs), Len(xs))

_generar_resumen(temps, hums, vts, tendencia_temp, tendencia_hum) ==
    [temperatura_promedio |-> Promedio(temps),
     humedad_promedio |-> Promedio(hums),
     viento_promedio |-> Promedio(vts),
     tendencias |-> [temperatura |-> _interpretar_tendencia(tendencia_temp),
                     humedad |-> _interpretar_tendencia(tendencia_hum)]]

-----------------------------------------------------------------------------
(* WeatherPredictions.analizar_patron_semanal *)

\* variant of CoordsInvalid: the limits themselves are rejected
CoordsInvalidStrict(la, lo) == ~(-90 < la /\ la < 90) \/ ~(-180 < lo /\ lo < 180)

\* not (-90 <= lat <= 90) or not (-180 <= lon <= 180)
CoordsInvalid(la, lo) == ~(-90 <= la /\ la <= 90) \/ ~(-180 <= lo /\ lo <= 180)

EmptyAnalisis == [patrones_diarios |-> <<>>, recomendaciones |-> <<>>, alertas |-> <<>>]

\* variant of NuevoAnalisis: the dict of the previous call is used again
AnalisisConservado(previo) == previo

\* analisis_semanal is a local name bound to a new dict in every call,
\* whatever the previous call left
NuevoAnalisis(previo) == EmptyAnalisis

\* variant of NotNumeric: float() accepts every value
NotNumericNever(dia, key) == FALSE

\* float(dia.get(key, 0)) raises ValueError or TypeError for a value that is
\* not a number; such values are listed by name under "no_numericos".
NotNumeric(dia, key) == key \in Get(dia, "no_numericos", {})

\* the three floats of a day, in tenths ("humedad" is held in whole percent)
TempOf(dia) == Get(dia, "temperatura", 0)
HumOf(dia) == F(Get(dia, "humedad", 0))
VientoOf(dia) == Get(dia, "viento", 0)

PatronDiario(dia) ==
    [dia |-> Get(dia, "dia", ""),
     fecha |-> Get(dia, "fecha", ""),
     condiciones |->
        [temperatura |-> [valor |-> TempOf(dia),
                          categoria |-> _categorizar_temperatura(TempOf(dia))],
         humedad |-> [valor |-> HumOf(dia),
                      categoria |-> _categorizar_humedad(HumOf(dia))],
         viento |-> [valor |-> VientoOf(dia),
                     categoria |-> _categorizar_viento(VientoOf(dia))]],
     riesgo_cultivo |-> _evaluar_riesgo_cultivo(TempOf(dia), HumOf(dia), VientoOf(dia))]

\* the try block of the loop leaves at the first float() that raises
DiaSkipped(dia) ==
    \E key \in {"temperatura", "humedad", "viento"} : NotNumeric(dia, key)

\* variant of AppendDia: the value is appended as soon as it is converted
AppendDiaAlConvertir(lista, dia, key, valor) ==
    IF NotNumeric(dia, key) THEN lista ELSE Append(lista, valor)

\* a series after one day: the three conversions come before the appends,
\* so the value is appended only when none of them raised
AppendDia(lista, dia, key, valor) ==
    IF DiaSkipped(dia) THEN lista ELSE Append(lista, valor)

analizar_patron_semanal_call(Lats, Lons) ==
    /\ pc = "idle"
    /\ op' = "analizar_patron_semanal"
    /\ lat' \in Lats
    /\ lon' \in Lons
    /\ IF CoordsInvalid(lat', lon')
       THEN /\ result' = Raised("ValueError", "Coordenadas geograficas no validas")
            /\ pc' = "done"
            /\ UNCHANGED <<attempts, last_error>>
       ELSE EnterRequest
    /\ UNCHANGED anterior
    /\ UNCHANGED <<delays, outcomes, data, seen_dates, sources, datos_diarios, dia_idx,
                   temperaturas, humedades, vientos, analisis_semanal, args>>

\* get_forecast returns inside analizar_patron_semanal: its exception
\* propagates; otherwise the per-day loop starts.
analizar_patron_semanal_forecast ==
    /\ pc = "response"
    /\ op = "analizar_patron_semanal"
    /\ LET f == Forecast(data[1])
           dias == IF f.result.status = "ok" THEN f.result.value.pronostico ELSE <<>>
       IN
        /\ seen_dates' = f.seen_dates
        /\ sources' = f.sources
        /\ datos_diarios' = dias
        /\ result' = IF f.result.status # "ok" THEN f.result
                     ELSE IF dias = <<>>
                     THEN Raised("ValueError", "No se obtuvieron datos de pronostico")
                     ELSE result
        /\ pc' = IF f.result.status = "ok" /\ dias # <<>> THEN "dias" ELSE "done"
    /\ dia_idx' = 0
    /\ temperaturas' = <<>>
    /\ humedades' = <<>>
    /\ vientos' = <<>>
    /\ analisis_semanal' = NuevoAnalisis(analisis_semanal)
    /\ UNCHANGED anterior
    /\ UNCHANGED <<op, lat, lon, attempts, last_error, delays, outcomes, data, args>>

\* get_forecast of a WeatherService that answers with a given dict: the
\* analyser takes any instance of the class, so any subclass of it
analizar_patron_semanal_pronostico(Pronosticos) ==
    /\ pc = "request"
    /\ op = "analizar_patron_semanal"
    /\ \E pronostico \in Pronosticos :
         LET dias == Get(pronostico, "pronostico", <<>>) IN
          /\ datos_diarios' = dias
          /\ result' = IF dias = <<>>
                       THEN Raised("ValueError", "No se obtuvieron datos de pronostico")
                       ELSE result
          /\ pc' = IF dias # <<>> THEN "dias" ELSE "done"
    /\ dia_idx' = 0
    /\ temperaturas' = <<>>
    /\ humedades' = <<>>
    /\ vientos' = <<>>
    /\ analisis_semanal' = NuevoAnalisis(analisis_semanal)
    /\ UNCHANGED anterior
    /\ UNCHANGED <<op, lat, lon, attempts, last_error, delays, outcomes, data,
                   seen_dates, sources, args>>

\* one iteration of "for dia in datos_diarios"
analizar_patron_semanal_dia ==
    /\ pc = "dias"
    /\ dia_idx < Len(datos_diarios)
    /\ dia_idx' = dia_idx + 1
    /\ LET dia == datos_diarios[dia_idx + 1] IN
        /\ temperaturas' = AppendDia(temperaturas, dia, "temperatura", TempOf(dia))
        /\ humedades' = AppendDia(humedades, dia, "humedad", HumOf(dia))
        /\ vientos' = AppendDia(vientos, dia, "viento", VientoOf(dia))
        /\ analisis_semanal' =
              IF DiaSkipped(dia) THEN analisis_semanal
              ELSE [analisis_semanal EXCEPT
                      !.patrones_diarios = Append(@, PatronDiario(dia))]
    /\ UNCHANGED anterior
    /\ UNCHANGED <<op, lat, lon, pc, attempts, last_error, delays, outcomes, data,
                   seen_dates, sources, datos_diarios, args, result>>

\* after the loop: the trends, _generar_recomendaciones, _generar_resumen
analizar_patron_semanal_resumen ==
    /\ pc = "dias"
    /\ dia_idx = Len(datos_diarios)
    /\ pc' = "done"
    /\ IF analisis_semanal.patrones_diarios = <<>>
       THEN /\ result' = Raised("ValueError", "No se pudo procesar ningun dia del pronostico")
            /\ UNCHANGED analisis_semanal
       ELSE LET tendencia_temp == _calcular_tendencia(Floats(temperaturas))
                tendencia_hum == _calcular_tendencia(Floats(humedades))
                final == [patrones_diarios |-> analisis_semanal.patrones_diarios,
                          recomendaciones |-> analisis_semanal.recomendaciones
                                              \o Recomendaciones(temperaturas),
                          alertas |-> analisis_semanal.alertas
                                      \o Alertas(humedades, vientos),
                          resumen |-> _generar_resumen(temperaturas, humedades, vientos,
                                                       tendencia_temp, tendencia_hum)]
            IN  /\ analisis_semanal' = final
                /\ result' = Returned(final)
    /\ UNCHANGED anterior
    /\ UNCHANGED <<op, lat, lon, attempts, last_error, delays, outcomes, data,
                   seen_dates, sources, datos_diarios, dia_idx,
                   temperaturas, humedades, vientos, args>>

\* the endpoint hands the answer to its caller; the analyser and the service
\* it holds are module-level objects, and serve the next request
analizar_patron_semanal_return ==
    /\ pc = "done"
    /\ op = "analizar_patron_semanal"
    /\ anterior' = [op |-> op, lat |-> lat, lon |-> lon, data |-> data, result |-> result]
    /\ pc' = "idle"
    /\ outcomes' = <<>>
    /\ delays' = <<>>
    /\ UNCHANGED <<op, lat, lon, attempts, last_error, data, seen_dates, sources,
                   datos_diarios, dia_idx, temperaturas, humedades, vientos,
                   analisis_semanal, args, result>>

-----------------------------------------------------------------------------
(* _evaluar_riesgo_cultivo called on its own *)

evaluar_riesgo_cultivo_call(Temps, Hums, Vientos) ==
    /\ pc = "idle"
    /\ op' = "_evaluar_riesgo_cultivo"
    /\ args' \in Temps \X Hums \X Vientos
    /\ pc' = "helper"
    /\ UNCHANGED anterior
    /\ UNCHANGED <<lat, lon, attempts, last_error, delays, outcomes, data,
                   seen_dates, sources, datos_diarios, dia_idx,
                   temperaturas, humedades, vientos, analisis_semanal, result>>

evaluar_riesgo_cultivo_body ==
    /\ pc = "helper"
    /\ op = "_evaluar_riesgo_cultivo"
    /\ result' = Returned(_evaluar_riesgo_cultivo(args[1], args[2], args[3]))
    /\ pc' = "done"
    /\ UNCHANGED anterior
    /\ UNCHANGED <<op, lat, lon, attempts, last_error, delays, outcomes, data,
                   seen_dates, sources, datos_diarios, dia_idx,
                   temperaturas, humedades, vientos, analisis_semanal, args>>

-----------------------------------------------------------------------------
(* The categorisers called on their own, each with one float in tenths *)

categorizar_temperatura_call(Temps) ==
    /\ pc = "idle"
    /\ op' = "_categorizar_temperatura"
    /\ args' \in {<<temp>> : temp \in Temps}
    /\ pc' = "helper"
    /\ UNCHANGED anterior
    /\ UNCHANGED <<lat, lon, attempts, last_error, delays, outcomes, data,
                   seen_dates, sources, datos_diarios, dia_idx,
                   temperaturas, humedades, vientos, analisis_semanal, result>>

categorizar_temperatura_body ==
    /\ pc = "helper"
    /\ op = "_categorizar_temperatura"
    /\ result' = Returned(_categorizar_temperatura(args[1]))
    /\ pc' = "done"
    /\ UNCHANGED anterior
    /\ UNCHANGED <<op, lat, lon, attempts, last_error, delays, outcomes, data,
                   seen_dates, sources, datos_diarios, dia_idx,
                   temperaturas, humedades, vientos, analisis_semanal, args>>

categorizar_humedad_call(Hums) ==
    /\ pc = "idle"
    /\ op' = "_categorizar_humedad"
    /\ args' \in {<<hum>> : hum \in Hums}
    /\ pc' = "helper"
    /\ UNCHANGED anterior
    /\ UNCHANGED <<lat, lon, attempts, last_error, delays, outcomes, data,
                   seen_dates, sources, datos_diarios, dia_idx,
                   temperaturas, humedades, vientos, analisis_semanal, result>>

categorizar_humedad_body ==
    /\ pc = "helper"
    /\ op = "_categorizar_humedad"
    /\ result' = Returned(_categorizar_humedad(args[1]))
    /\ pc' = "done"
    /\ UNCHANGED anterior
    /\ UNCHANGED <<op, lat, lon, attempts, last_error, delays, outcomes, data,
                   seen_dates, sources, datos_diarios, dia_idx,
                   temperaturas, humedades, vientos, analisis_semanal, args>>

categorizar_viento_call(Vientos) ==
    /\ pc = "idle"
    /\ op' = "_categorizar_viento"
    /\ args' \in {<<viento>> : viento \in Vientos}
    /\ pc' = "helper"
    /\ UNCHANGED anterior
    /\ UNCHANGED <<lat, lon, attempts, last_error, delays, outcomes, data,
                   seen_dates, sources, datos_diarios, dia_idx,
                   temperaturas, humedades, vientos, analisis_semanal, result>>

categorizar_viento_body ==
    /\ pc = "helper"
    /\ op = "_categorizar_viento"
    /\ result' = Returned(_categorizar_viento(args[1]))
    /\ pc' = "done"
    /\ UNCHANGED anterior
    /\ UNCHANGED <<op, lat, lon, attempts, last_error, delays, outcomes, data,
                   seen_dates, sources, datos_diarios, dia_idx,
                   temperaturas, humedades, vientos, analisis_semanal, args>>

-----------------------------------------------------------------------------
(* _calcular_tendencia called on its own, and _interpretar_tendencia on the
   slope it returned *)

calcular_tendencia_call(Series) ==
    /\ pc = "idle"
    /\ op' = "_calcular_tendencia"
    /\ args' \in {<<datos>> : datos \in Series}
    /\ pc' = "helper"
    /\ UNCHANGED anterior
    /\ UNCHANGED <<lat, lon, attempts, last_error, delays, outcomes, data,
                   seen_dates, sources, datos_diarios, dia_idx,
                   temperaturas, humedades, vientos, analisis_semanal, result>>

\* every exception is caught and answered with 0.0: the method always returns
calcular_tendencia_body ==
    /\ pc = "helper"
    /\ op = "_calcular_tendencia"
    /\ result' = Returned(_calcular_tendencia(args[1]))
    /\ pc' = "tendencia"
    /\ UNCHANGED anterior
    /\ UNCHANGED <<op, lat, lon, attempts, last_error, delays, outcomes, data,
                   seen_dates, sources, datos_diarios, dia_idx,
                   temperaturas, humedades, vientos, analisis_semanal, args>>

interpretar_tendencia_body ==
    /\ pc = "tendencia"
    /\ op = "_calcular_tendencia"
    /\ op' = "_interpretar_tendencia"
    /\ result' = Returned([tendencia |-> result.value,
                           etiqueta |-> _interpretar_tendencia(result.value)])
    /\ pc' = "done"
    /\ UNCHANGED anterior
    /\ UNCHANGED <<lat, lon, attempts, last_error, delays, outcomes, data,
                   seen_dates, sources, datos_diarios, dia_idx,
                   temperaturas, humedades, vientos, analisis_semanal, args>>

-----------------------------------------------------------------------------
(* The state after construction: no call made yet *)

Init ==
    /\ op = "none"
    /\ lat = 0
    /\ lon = 0
    /\ pc = "idle"
    /\ attempts = 0
    /\ last_error = <<"None">>
    /\ delays = <<>>
    /\ outcomes = <<>>
    /\ data = <<>>
    /\ seen_dates = {}
    /\ sources = <<>>
    /\ datos_diarios = <<>>
    /\ dia_idx = 0
    /\ temperaturas = <<>>
    /\ humedades = <<>>
    /\ vientos = <<>>
    /\ analisis_semanal = EmptyAnalisis
    /\ args = <<>>
    /\ result = NoResult
    /\ anterior = NoCall

-----------------------------------------------------------------------------
(* The provider: what it may answer *)

Weather == <<[description |-> "cielo claro", id |-> 801]>>

\* a well-formed forecast sample
Sample(dt, temp, hum, speed) ==
    [dt |-> dt, main |-> [temp |-> temp, humidity |-> hum],
     wind |-> [speed |-> speed], weather |-> Weather]

\* the sample of time dt with readings that identify it
SampleAt(dt) == Sample(dt, 1504 + 10 * dt, 5050 + 100 * (dt % 40), 300 + dt)

\* the same sample with a field missing, or with wind: null
Without(item, key) == [k \in DOMAIN item \ {key} |-> item[k]]
NullWind(item) == [item EXCEPT !["wind"] = Null]

\* /weather payloads: every combination of present and absent fields
CurrentPayloads ==
    LET Mains == {EmptyDict, [temp |-> 2345], [humidity |-> 6050],
                  [temp |-> 2345, humidity |-> 6050]}
        Winds == {EmptyDict, [speed |-> 833]}
        Rains == {"1h" :> 120}
        Weathers == {<<>>, Weather, <<[description |-> "cielo claro"]>>}
        Opt(key, values) == {EmptyDict} \cup {key :> v : v \in values}
    IN  {m @@ w @@ r @@ c :
            m \in Opt("main", Mains), w \in Opt("wind", Winds),
            r \in Opt("rain", Rains), c \in Opt("weather", Weathers)}

\* /forecast payloads of the whole-program specification: a few short feeds
SmallFeeds ==
    {EmptyDict, [list |-> <<>>], [list |-> <<SampleAt(12)>>],
     [list |-> <<SampleAt(9), SampleAt(12), SampleAt(36)>>],
     [list |-> <<Without(SampleAt(12), "main"), SampleAt(37)>>]}

AllOutcomes ==
    {OkOutcome, TimeoutOutcome, ConnectionOutcome, HTTPOutcome(404), HTTPOutcome(500)}

\* coordinates around the limits of the valid ranges
Lats == {-91, -90, 90, 91}
Lons == {-181, -180, 180, 181}

Payloads ==
    [o \in {"get_current_weather", "get_forecast", "analizar_patron_semanal"} |->
        IF o = "get_current_weather" THEN CurrentPayloads ELSE SmallFeeds]

-----------------------------------------------------------------------------
(* The whole program: the three public operations against any provider *)

Next ==
    \/ get_current_weather_call(Lats, Lons)
    \/ get_forecast_call(Lats, Lons)
    \/ analizar_patron_semanal_call(Lats, Lons)
    \/ make_request_attempt(AllOutcomes, Payloads)
    \/ make_request_sleep
    \/ get_current_weather_body
    \/ get_forecast_body
    \/ analizar_patron_semanal_forecast
    \/ analizar_patron_semanal_dia
    \/ analizar_patron_semanal_resumen

Spec == Init /\ [][Next]_vars

-----------------------------------------------------------------------------
(* get_forecast against any feed *)

\* the longest feed built from arbitrary samples
MaxFeed == 3
\* the longest one-sample-a-day feed
MaxDaily == 7

\* times of two days, around midday
FeedTimes == {24 * d + h : d \in {0, 1}, h \in {10, 11, 12, 13, 14}}

\* the samples a feed is built from: well formed, without "main", without
\* "dt", and with wind: null
FeedSamples ==
    {SampleAt(dt) : dt \in FeedTimes}
    \cup {Without(SampleAt(dt), "main") : dt \in FeedTimes}
    \cup {Without(SampleAt(12), "dt"), NullWind(SampleAt(12))}

\* every sequence of at most MaxFeed samples, in any order
ShortFeeds == UNION {[1..n -> FeedSamples] : n \in 0..MaxFeed}

\* a noon sample on each of the days 1..n
DailyFeed(n) == [i \in 1..n |-> SampleAt(24 * i + 12)]

\* a daily feed with one sample replaced by any sample
LongFeeds ==
    {DailyFeed(n) : n \in 1..MaxDaily}
    \cup UNION {{[DailyFeed(n) EXCEPT ![p] = x] : p \in 1..n, x \in FeedSamples} :
                    n \in 4..MaxDaily}

\* the provider's feed: 40 samples, 3 hours apart, from a given hour on
CadenceFeed(start) == [i \in 1..40 |-> SampleAt(start + 3 * (i - 1))]
CadenceFeeds == {CadenceFeed(start) : start \in {0, 1, 2, 9, 13, 23}}

ForecastPayloads ==
    [o \in {"get_forecast"} |->
        {EmptyDict} \cup {[list |-> f] : f \in ShortFeeds \cup LongFeeds \cup CadenceFeeds}]

NextForecast ==
    \/ get_forecast_call({-90}, {180})
    \/ make_request_attempt({OkOutcome}, ForecastPayloads)
    \/ get_forecast_body

SpecForecast == Init /\ [][NextForecast]_vars

-----------------------------------------------------------------------------
(* analizar_patron_semanal over weeks of varied readings *)

\* the longest week analysed
MaxDias == 3

\* provider readings around the thresholds: 18.04 and 24.04 degrees; 80 and
\* 81 percent; 6.9, 7.0, 8.33 and 8.4 m/s (24.8, 25.2, 30.0 and 30.2 km/h)
WeekTemps == {1804, 2404}
WeekHums == {8000, 8100}
WeekSpeeds == {690, 700, 833, 840}

\* a noon sample on each of the days 1..n, with any of the readings
WeekFeeds ==
    UNION {[1..n -> WeekTemps \X WeekHums \X WeekSpeeds] : n \in 1..MaxDias}

WeekFeed(w) == [i \in 1..Len(w) |-> Sample(24 * i + 12, w[i][1], w[i][2], w[i][3])]

AnalisisPayloads ==
    [o \in {"analizar_patron_semanal"} |-> {[list |-> WeekFeed(w)] : w \in WeekFeeds}]

NextAnalisis ==
    \/ analizar_patron_semanal_call({-90}, {180})
    \/ make_request_attempt({OkOutcome}, AnalisisPayloads)
    \/ analizar_patron_semanal_forecast
    \/ analizar_patron_semanal_dia
    \/ analizar_patron_semanal_resumen

SpecAnalisis == Init /\ [][NextAnalisis]_vars

-----------------------------------------------------------------------------
(* _evaluar_riesgo_cultivo over a grid of arguments around its thresholds *)

RiesgoTemps == {F(5), 99, F(10), F(20), F(30), 301, F(32)}
RiesgoHums == {F(20), 299, F(30), F(50), F(80), 801, F(85)}
RiesgoVientos == {F(10), F(25), 251, F(30), 301}

NextRiesgo ==
    \/ evaluar_riesgo_cultivo_call(RiesgoTemps, RiesgoHums, RiesgoVientos)
    \/ evaluar_riesgo_cultivo_body

SpecRiesgo == Init /\ [][NextRiesgo]_vars

-----------------------------------------------------------------------------
(* analizar_patron_semanal over forecasts whose days may hold values that
   are not numbers *)

\* a day of 21.5 degrees, 60 percent and 12.0 km/h, and a hot, humid and
\* windy one
DiaTemplado ==
    [dia |-> "Lunes", fecha |-> 0, temperatura |-> 215, humedad |-> 60, viento |-> 120]
DiaExtremo ==
    [dia |-> "Martes", fecha |-> 0, temperatura |-> 305, humedad |-> 85, viento |-> 310]

\* the same day with a value that float() rejects under a key, or without
\* the key
NoNumerico(dia, key) == [k \in DOMAIN dia \cup {"no_numericos"} |->
                            IF k = "no_numericos" THEN {key} ELSE dia[k]]
SinClave(dia, key) == [k \in DOMAIN dia \ {key} |-> dia[k]]

DiasPosibles ==
    {DiaTemplado, DiaExtremo, SinClave(DiaExtremo, "temperatura")}
    \cup {NoNumerico(DiaTemplado, key) : key \in {"temperatura", "humedad", "viento"}}

\* days in sequence, each dated by its position
Fechado(w) == [i \in 1..Len(w) |-> [w[i] EXCEPT !["fecha"] = i]]

Pronosticos ==
    {EmptyDict}
    \cup {[pronostico |-> Fechado(w)] : w \in UNION {[1..n -> DiasPosibles] : n \in 0..MaxDias}}

NextDias ==
    \/ analizar_patron_semanal_call({-90, 91}, {180})
    \/ analizar_patron_semanal_pronostico(Pronosticos)
    \/ analizar_patron_semanal_dia
    \/ analizar_patron_semanal_resumen

SpecDias == Init /\ [][NextDias]_vars

-----------------------------------------------------------------------------
(* analizar_patron_semanal called again and again on the same analyser *)

\* no feed, a day without "main", and weeks of one and two days
LlamadasPayloads ==
    [o \in {"analizar_patron_semanal"} |->
        {EmptyDict, [list |-> <<Without(SampleAt(12), "main")>>]}
        \cup {[list |-> WeekFeed(w)] :
                w \in {<<<<1804, 8100, 700>>>>, <<<<2404, 8000, 840>>>>,
                       <<<<1804, 8000, 690>>, <<2404, 8100, 840>>>>,
                       <<<<2404, 8100, 840>>, <<1804, 8000, 690>>>>}}]

NextLlamadas ==
    \/ analizar_patron_semanal_call({-90, 90, 91}, {180})
    \/ make_request_attempt({OkOutcome}, LlamadasPayloads)
    \/ analizar_patron_semanal_forecast
    \/ analizar_patron_semanal_dia
    \/ analizar_patron_semanal_resumen
    \/ analizar_patron_semanal_return

SpecLlamadas == Init /\ [][NextLlamadas]_vars

-----------------------------------------------------------------------------
(* The categorisers over every reading from -5.0 to 100.0, in tenths *)

CategoriaTemps == -F(5) .. F(45)
CategoriaHums == 0 .. F(100)
CategoriaVientos == 0 .. F(40)

NextCategorias ==
    \/ categorizar_temperatura_call(CategoriaTemps)
    \/ categorizar_temperatura_body
    \/ categorizar_humedad_call(CategoriaHums)
    \/ categorizar_humedad_body
    \/ categorizar_viento_call(CategoriaVientos)
    \/ categorizar_viento_body

SpecCategorias == Init /\ [][NextCategorias]_vars

-----------------------------------------------------------------------------
(* The trend of every short series, and of two five-day series *)

\* the longest series built from arbitrary elements
MaxSerie == 4

\* 10.0, 10.1, 10.2 and 12.0 as floats, None and a string
SerieElems == {Float(100), Float(101), Float(102), Float(120), Null, Str("n/d")}

Series ==
    UNION {[1..n -> SerieElems] : n \in 0..MaxSerie}
    \cup {Floats(<<100, 100, 100, 100, 100>>), Floats(<<100, 120, 140, 160, 180>>)}

NextTendencia ==
    \/ calcular_tendencia_call(Series)
    \/ calcular_tendencia_body
    \/ interpretar_tendencia_body

SpecTendencia == Init /\ [][NextTendencia]_vars

-----------------------------------------------------------------------------
(* Properties of the request operation (Spec) *)

\* the message the except clauses record for an outcome
RecordedError(o) ==
    IF o.kind = "Timeout" THEN <<"Timeout al conectar con el servicio">>
    ELSE IF o.kind = "HTTPError" THEN <<o.text, o.code>>
    ELSE <<o.text>>

ConnectivityError(o) ==
    [status |-> "error", type |-> "RequestException",
     msg |-> <<"Error despues de", 3, "intentos">> \o RecordedError(o)]

C2_ExhaustedAfterThree ==
    (\A k \in 1..Len(outcomes) : IsTransport(outcomes[k])) =>
        /\ Len(outcomes) <= 3
        /\ \A i \in 1..Len(delays) : delays[i] = 1
        /\ (pc = "request" => Len(outcomes) < 3 /\ Len(delays) = Len(outcomes))
        /\ (pc = "sleep" => Len(outcomes) < 3 /\ Len(delays) = Len(outcomes) - 1)
        /\ (pc = "done" /\ outcomes # <<>> =>
                /\ Len(outcomes) = 3
                /\ Len(delays) = 2
                /\ result = ConnectivityError(outcomes[3]))

\* three failed attempts whose last error differs from the earlier ones
C2_Witness ==
    /\ pc = "done"
    /\ Len(outcomes) = 3
    /\ outcomes[1].kind = "Timeout"
    /\ outcomes[2].kind = "Timeout"
    /\ outcomes[3].kind = "ConnectionError"
    /\ result.status = "error"

-----------------------------------------------------------------------------
(* Properties of get_current_weather (Spec) *)

\* an optional field is absent, or present and well formed
OptionalFieldsWellFormed(d) ==
    /\ "wind" \in DOMAIN d => ~IsNone(d["wind"])
    /\ HasWeather(d) => {"description", "id"} \subseteq DOMAIN d["weather"][1]

\* C6: on a fetched payload the call fails (ValueError, the malformed
\* response error) if and only if main.temp or main.humidity is absent; with
\* both present it returns a record, with wind 0 when the wind field or its
\* speed is absent, rain 0 when rain is absent, and "desconocido"/800 when
\* the weather list is absent or empty.
C6_FailsIffMainIncomplete ==
    (op = "get_current_weather" /\ pc = "done" /\ data # <<>>
        /\ OptionalFieldsWellFormed(data[1])) =>
        LET d == data[1]
            complete == /\ "main" \in DOMAIN d
                        /\ {"temp", "humidity"} \subseteq DOMAIN d["main"]
        IN  /\ ~complete => result.status = "error" /\ result.type = "ValueError"
            /\ complete =>
                /\ result.status = "ok"
                /\ ("wind" \notin DOMAIN d \/ "speed" \notin DOMAIN d["wind"]
                        => result.value.viento = 0)
                /\ ("rain" \notin DOMAIN d => result.value.lluvia = 0)
                /\ (~HasWeather(d) => /\ result.value.condicion = "desconocido"
                                      /\ result.value.condicion_id = 800)

-----------------------------------------------------------------------------
(* Properties of analizar_patron_semanal (Spec) *)

OutOfRange(la, lo) == la < -90 \/ la > 90 \/ lo < -180 \/ lo > 180

CoordsError ==
    [status |-> "error", type |-> "ValueError",
     msg |-> "Coordenadas geograficas no validas"]

\* C7: with a latitude outside [-90,90] or a longitude outside [-180,180]
\* the call has failed with the coordinates error and no request was ever
\* attempted or delayed; with both in range, the limits included, the check
\* passes: the call goes on to the request and never ends without one.
C7_CoordinatesCheckedFirst ==
    op = "analizar_patron_semanal" =>
        IF OutOfRange(lat, lon)
        THEN /\ pc = "done"
             /\ result = CoordsError
             /\ outcomes = <<>>
             /\ attempts = 0
             /\ delays = <<>>
        ELSE /\ result # CoordsError
             /\ pc = "request" \/ outcomes # <<>>

\* a latitude on the limit with a longitude just outside
C7_Witness ==
    /\ op = "analizar_patron_semanal"
    /\ lat = 90
    /\ lon = 181
    /\ pc = "done"
    /\ result = CoordsError
    /\ outcomes = <<>>

-----------------------------------------------------------------------------
(* Properties of get_forecast (SpecForecast) *)

ForecastDone == op = "get_forecast" /\ pc = "done" /\ data # <<>>

\* the feed of the payload (empty when the payload has no list)
Feed == IF data # <<>> /\ "list" \in DOMAIN data[1] THEN data[1]["list"] ELSE <<>>

\* the calendar date and the hour of sample i
DateOfSample(i) == Feed[i]["dt"] \div 24
HourOfSample(i) == Feed[i]["dt"] % 24

\* sample i has every field an entry needs
WellFormed(i) ==
    /\ {"dt", "main", "wind"} \subseteq DOMAIN Feed[i]
    /\ {"temp", "humidity"} \subseteq DOMAIN Feed[i]["main"]
    /\ "py_none" \notin DOMAIN Feed[i]["wind"]

\* sample i lacks fields, or is well formed: it holds no null
MissingFieldsAtMost(i) ==
    "wind" \in DOMAIN Feed[i] => "py_none" \notin DOMAIN Feed[i]["wind"]

\* the samples with a timestamp at hour 11, 12 or 13
MiddaySamples ==
    {i \in 1..Len(Feed) : "dt" \in DOMAIN Feed[i] /\ HourOfSample(i) \in {11, 12, 13}}

\* the first midday sample of each date
FirstOfDate ==
    {i \in MiddaySamples :
        \A j \in MiddaySamples : j < i => DateOfSample(j) # DateOfSample(i)}

\* the first five members of a set of positions
FirstFive(S) == {i \in S : Cardinality({j \in S : j < i}) < 5}

SourceSet == {sources[k] : k \in 1..Len(sources)}

\* entry k of the result was built from sample sources[k]
BuiltFromSource(k) ==
    /\ sources[k] \in 1..Len(Feed)
    /\ "dt" \in DOMAIN Feed[sources[k]]
    /\ result.value.pronostico[k].fecha = DateOfSample(sources[k])
    /\ result.value.pronostico[k].temperatura * 10 + 4 = Feed[sources[k]]["main"]["temp"]

\* C3: a forecast that is returned has between 1 and 5 entries, no two of
\* the same date, each built from a sample of the feed, in the order of
\* those samples in the feed; whatever samples the feed holds.
C3_ForecastShape ==
    (ForecastDone /\ result.status = "ok") =>
        LET p == result.value.pronostico IN
        /\ Len(p) >= 1
        /\ Len(p) <= 5
        /\ \A i, j \in 1..Len(p) : i # j => p[i].fecha # p[j].fecha
        /\ Len(sources) = Len(p)
        /\ \A k \in 1..Len(p) : BuiltFromSource(k)
        /\ \A i, j \in 1..Len(p) : i < j => sources[i] < sources[j]

\* five entries returned from a feed that goes on after the fifth source
C3_Witness ==
    /\ ForecastDone
    /\ result.status = "ok"
    /\ Len(result.value.pronostico) = 5
    /\ sources[5] < Len(Feed)
    /\ \E i \in 1..Len(Feed) : ~WellFormed(i)

\* C4: on a feed of well-formed samples the entries are built from exactly
\* the first midday sample (hour 11, 12 or 13) of each date, for the first 5
\* dates that have one: one entry per such date, none from another hour or
\* from a later sample of a date, none after the fifth; without any midday
\* sample the call fails.
C4_FirstMiddaySamplePerDate ==
    (ForecastDone /\ Feed # <<>> /\ \A i \in 1..Len(Feed) : WellFormed(i)) =>
        IF FirstOfDate = {}
        THEN result.status = "error"
        ELSE /\ result.status = "ok"
             /\ SourceSet = FirstFive(FirstOfDate)
             /\ Len(sources) = Cardinality(SourceSet)
             /\ Len(result.value.pronostico) = Len(sources)
             /\ \A k \in 1..Len(sources) :
                    /\ HourOfSample(sources[k]) \in {11, 12, 13}
                    /\ BuiltFromSource(k)

\* a well-formed feed with midday samples on more than 5 dates, and samples
\* at other hours
C4_Witness ==
    /\ ForecastDone
    /\ \A i \in 1..Len(Feed) : WellFormed(i)
    /\ Cardinality(FirstOfDate) > 5
    /\ \E i \in 1..Len(Feed) : HourOfSample(i) \notin {11, 12, 13}
    /\ result.status = "ok"
    /\ Len(result.value.pronostico) = 5

\* the samples that yield an entry: complete, and the first midday sample
\* of their date (a date counts as taken from its first midday sample on,
\* complete or not)
Usable == {i \in FirstOfDate : WellFormed(i)}

MalformedResponse(r) == r.status = "error" /\ r.type = "ValueError"

\* C5: in a feed whose samples are complete or lack fields, a sample that
\* lacks fields is passed over and the samples after it are still processed:
\* the entries are built from the first 5 usable samples, wherever the
\* incomplete ones lie; the call fails, with the malformed-response error,
\* exactly when the list is absent or empty or no sample is usable.
C5_MalformedSampleSkipped ==
    (ForecastDone /\ \A i \in 1..Len(Feed) : MissingFieldsAtMost(i)) =>
        /\ result.status = "ok" \/ MalformedResponse(result)
        /\ MalformedResponse(result) <=> Usable = {}
        /\ result.status = "ok" =>
              /\ SourceSet = FirstFive(Usable)
              /\ Len(result.value.pronostico) = Cardinality(Usable \cap FirstFive(Usable))

\* an entry built from a sample that follows a midday sample without "main"
C5_Witness ==
    /\ ForecastDone
    /\ result.status = "ok"
    /\ \E i \in MiddaySamples :
          /\ "main" \notin DOMAIN Feed[i]
          /\ \E k \in 1..Len(sources) : sources[k] > i

-----------------------------------------------------------------------------
(* Properties of _evaluar_riesgo_cultivo (SpecRiesgo) *)

RiesgoDone == op = "_evaluar_riesgo_cultivo" /\ pc = "done"

\* C8: the score is the sum of +2 for temperature > 30 or < 10, +2 for
\* humidity > 80, +1 for humidity < 30 and +2 for wind > 25; the factors are
\* one label per contribution, in that order, and no other; the level is
\* bajo up to 1, medio for 2 and 3, alto from 4.
C8_RiskScore ==
    RiesgoDone =>
        LET temp == args[1]
            hum == args[2]
            viento == args[3]
            r == result.value
            score == (IF temp > 300 \/ temp < 100 THEN 2 ELSE 0)
                     + (IF hum > 800 THEN 2 ELSE 0)
                     + (IF hum < 300 THEN 1 ELSE 0)
                     + (IF viento > 250 THEN 2 ELSE 0)
            labels == (IF temp > 300 THEN <<"temperatura alta">> ELSE <<>>)
                      \o (IF temp < 100 THEN <<"temperatura baja">> ELSE <<>>)
                      \o (IF hum > 800 THEN <<"humedad alta">> ELSE <<>>)
                      \o (IF hum < 300 THEN <<"humedad baja">> ELSE <<>>)
                      \o (IF viento > 250 THEN <<"viento fuerte">> ELSE <<>>)
        IN  /\ r.valor = score
            /\ r.factores = labels
            /\ r.nivel = (CASE score <= 1 -> "bajo"
                            [] score \in {2, 3} -> "medio"
                            [] score >= 4 -> "alto")

\* a cold, dry and windy day: three contributions, score 5
C8_Witness ==
    /\ RiesgoDone
    /\ args = <<99, 299, 251>>
    /\ result.value.valor = 5
    /\ result.value.nivel = "alto"
    /\ Len(result.value.factores) = 3

\* C9 as stated: temperature 32, humidity 85, wind 10 give score 4, level
\* medium and the factors high temperature, high humidity.
C9_ExampleIsMedium ==
    (RiesgoDone /\ args = <<F(32), F(85), F(10)>>) =>
        /\ result.value.valor = 4
        /\ result.value.nivel = "medio"
        /\ result.value.factores = <<"temperatura alta", "humedad alta">>

\* C9 as amended: temperature 32, humidity 85, wind 10 give score 4, level
\* high (alto, since 4 > 3) and the factors high temperature, high humidity
\* in that order.
C9_ExampleIsHigh ==
    (RiesgoDone /\ args = <<F(32), F(85), F(10)>>) =>
        /\ result.value.valor = 4
        /\ result.value.nivel = "alto"
        /\ result.value.factores = <<"temperatura alta", "humedad alta">>

C9_Witness ==
    /\ RiesgoDone
    /\ args = <<F(32), F(85), F(10)>>
    /\ result.status = "ok"

-----------------------------------------------------------------------------
(* Properties of the weekly report (SpecAnalisis) *)

ReportDone == op = "analizar_patron_semanal" /\ pc = "done" /\ result.status = "ok"

\* the values of the processed days, as the report records them
DayHumidity(k) == result.value.patrones_diarios[k].condiciones.humedad.valor
DayWind(k) == result.value.patrones_diarios[k].condiciones.viento.valor
DayFactors(k) == result.value.patrones_diarios[k].riesgo_cultivo.factores
Days == 1..Len(result.value.patrones_diarios)

AlertsOf(tipo) ==
    {k \in 1..Len(result.value.alertas) : result.value.alertas[k].tipo = tipo}

HasFactor(k, label) == \E n \in 1..Len(DayFactors(k)) : DayFactors(k)[n] = label

\* C10: the report holds the fungal alert (level precaucion) exactly when
\* some processed day has humidity > 80, and the wind alert (level
\* advertencia) exactly when some processed day has wind > 30; each at most
\* once and no other alert; a week whose strongest wind is above 25 but not
\* above 30 has a day with the factor viento fuerte and no wind alert.
C10_AlertThresholds ==
    ReportDone =>
        /\ AlertsOf("hongos") # {} <=> \E k \in Days : DayHumidity(k) > 800
        /\ AlertsOf("viento") # {} <=> \E k \in Days : DayWind(k) > 300
        /\ Cardinality(AlertsOf("hongos")) <= 1
        /\ Cardinality(AlertsOf("viento")) <= 1
        /\ \A k \in 1..Len(result.value.alertas) :
              \/ /\ result.value.alertas[k].tipo = "hongos"
                 /\ result.value.alertas[k].nivel = "precaucion"
              \/ /\ result.value.alertas[k].tipo = "viento"
                 /\ result.value.alertas[k].nivel = "advertencia"
        /\ ((\E k \in Days : DayWind(k) > 250) /\ (\A k \in Days : DayWind(k) <= 300)
              => /\ \E k \in Days : HasFactor(k, "viento fuerte")
                 /\ AlertsOf("viento") = {})

\* a humid week whose strongest wind is exactly 30 km/h: the fungal alert,
\* the wind factor, and no wind alert
C10_Witness ==
    /\ ReportDone
    /\ \E k \in Days : DayWind(k) = 300
    /\ \A k \in Days : DayWind(k) <= 300
    /\ \E k \in Days : DayHumidity(k) = 810
    /\ \E k \in Days : HasFactor(k, "viento fuerte")
    /\ AlertsOf("viento") = {}
    /\ Cardinality(AlertsOf("hongos")) = 1

-----------------------------------------------------------------------------
(* Attempts and delays of the request operation (Spec) *)

Succeeded(k) == outcomes[k].kind = "ok"

\* the failed attempts that another attempt has followed
FailedAndFollowed == {k \in 1..Len(outcomes) : ~Succeeded(k) /\ k < Len(outcomes)}

\* C15: a request makes at most 3 attempts; a successful attempt is the last
\* one and its payload is handed over without a delay; every delay follows
\* a failed attempt that is not the third, and comes before the next
\* attempt, so the delays number the failed attempts that were followed by
\* another attempt, at most 2.
C15_AttemptsAndDelays ==
    /\ Len(outcomes) <= 3
    /\ Len(delays) <= 2
    /\ \A k \in 1..Len(outcomes) :
          Succeeded(k) =>
              /\ k = Len(outcomes)
              /\ pc \notin {"request", "sleep"}
              /\ data # <<>>
              /\ Len(delays) = k - 1
    /\ pc = "sleep" =>
          /\ ~Succeeded(Len(outcomes))
          /\ Len(outcomes) < 3
          /\ Len(delays) = Len(outcomes) - 1
    /\ pc = "request" => Len(delays) = Len(outcomes)
    /\ pc \notin {"request", "sleep"} => Len(delays) = Cardinality(FailedAndFollowed)

\* a payload returned by the third attempt, after two failures and two delays
C15_Witness ==
    /\ Len(outcomes) = 3
    /\ ~Succeeded(1)
    /\ ~Succeeded(2)
    /\ Succeeded(3)
    /\ pc = "response"
    /\ Len(delays) = 2

-----------------------------------------------------------------------------
(* Properties of the categorisers (SpecCategorias) *)

CategoriaDone(name) == op = name /\ pc = "done"

\* the bucket of a value v in tenths, for the lower-closed limits lo < hi in
\* whole units: 1 below lo, 2 on [lo, hi), 3 from hi on
Bucket(v, lo, hi) ==
    CHOOSE k \in 1..3 :
        /\ k = 1 <=> v < F(lo)
        /\ k = 2 <=> (F(lo) <= v /\ v < F(hi))
        /\ k = 3 <=> v >= F(hi)

\* C11: each categoriser returns, for every numeric value, the label of the
\* one bucket that holds it: temperature below 15 fria, on [15, 25) moderada,
\* from 25 on caliente; humidity below 40 baja, on [40, 70) moderada, from
\* 70 on alta; wind below 10 suave, on [10, 20) moderado, from 20 on fuerte.
\* So 14.9 is fria, 15.0 is moderada and 25.0 is caliente.
C11_CategoryBuckets ==
    /\ CategoriaDone("_categorizar_temperatura") =>
          /\ result = Returned(<<"fria", "moderada", "caliente">>
                                   [Bucket(args[1], 15, 25)])
          /\ args[1] = 149 => result.value = "fria"
          /\ args[1] = 150 => result.value = "moderada"
          /\ args[1] = 250 => result.value = "caliente"
    /\ CategoriaDone("_categorizar_humedad") =>
          result = Returned(<<"baja", "moderada", "alta">>
                                [Bucket(args[1], 40, 70)])
    /\ CategoriaDone("_categorizar_viento") =>
          result = Returned(<<"suave", "moderado", "fuerte">>
                                [Bucket(args[1], 10, 20)])

\* 25.0 degrees has been categorised, and it is caliente
C11_Witness ==
    /\ CategoriaDone("_categorizar_temperatura")
    /\ args = <<250>>
    /\ result = Returned("caliente")

-----------------------------------------------------------------------------
(* Properties of the trend (SpecTendencia) *)

TendenciaDone == op = "_interpretar_tendencia" /\ pc = "done"

\* the valid numeric points of the series the trend was asked of
Puntos == LET v == SelectSeq(args[1], IsNumber) IN [i \in 1..Len(v) |-> v[i].float]

\* n times the deviation of the i-th day index, 0-based, from the mean index,
\* and of the i-th point from the mean point
DesvioDia(i) == Len(Puntos) * (i - 1) - SumSeq([k \in 1..Len(Puntos) |-> k - 1])
DesvioPunto(i) == Len(Puntos) * Puntos[i] - SumSeq(Puntos)

RECURSIVE Covarianza(_)
Covarianza(i) == IF i = 0 THEN 0 ELSE DesvioDia(i) * DesvioPunto(i) + Covarianza(i - 1)

RECURSIVE Varianza(_)
Varianza(i) == IF i = 0 THEN 0 ELSE DesvioDia(i) * DesvioDia(i) + Varianza(i - 1)

\* the slope equals the least-squares slope, covariance over variance
IsLeastSquares(tendencia) ==
    /\ tendencia[2] > 0
    /\ tendencia[1] * Varianza(Len(Puntos)) = Covarianza(Len(Puntos)) * tendencia[2]

\* C12: the trend of a series is the least-squares slope of its valid numeric
\* points over the 0-based day index, and the label is estable when the
\* slope is within 0.1 of zero (exclusive), else aumentando when positive
\* and disminuyendo when negative; with fewer than 2 valid points the slope
\* is 0, the label estable, and the call returns normally.  So
\* [10,10,10,10,10] is estable and [10,12,14,16,18] has slope 2, aumentando.
C12_TrendLabel ==
    TendenciaDone =>
        LET t == result.value.tendencia
            label == result.value.etiqueta
        IN  /\ result.status = "ok"
            /\ Len(Puntos) < 2 => t[1] = 0 /\ label = "estable"
            /\ Len(Puntos) >= 2 => IsLeastSquares(t)
            /\ label = "estable" <=> (-t[2] < t[1] /\ t[1] < t[2])
            /\ label = "aumentando" <=> t[1] >= t[2]
            /\ label = "disminuyendo" <=> t[1] <= -t[2]
            /\ args[1] = Floats(<<100, 100, 100, 100, 100>>) => label = "estable"
            /\ args[1] = Floats(<<100, 120, 140, 160, 180>>) =>
                  t[1] = 20 * t[2] /\ label = "aumentando"

\* the series 10, 12, 14, 16, 18 has been labelled
C12_Witness ==
    /\ TendenciaDone
    /\ args[1] = Floats(<<100, 120, 140, 160, 180>>)
    /\ result.value.etiqueta = "aumentando"

-----------------------------------------------------------------------------
(* The date of a malformed midday sample (SpecForecast) *)

\* the loop got as far as sample i: it had not collected 5 entries before it
Reached(i) == Len(sources) < 5 \/ sources[5] >= i

\* C16: the date of a midday sample is marked as seen before the sample is
\* parsed.  When the first midday sample of a date lacks fields, the date is
\* marked all the same and no entry of the result is of that date, even if
\* a complete midday sample of the date comes later in the feed; and the
\* incomplete sample takes none of the 5 places.
C16_MalformedSampleTakesDate ==
    (ForecastDone /\ \A i \in 1..Len(Feed) : MissingFieldsAtMost(i)) =>
        /\ \A i \in FirstOfDate :
              ~WellFormed(i) =>
                  /\ Reached(i) => DateOfSample(i) \in seen_dates
                  /\ \A k \in 1..Len(sources) :
                        DateOfSample(sources[k]) # DateOfSample(i)
                  /\ result.status = "ok" =>
                        \A k \in 1..Len(result.value.pronostico) :
                            result.value.pronostico[k].fecha # DateOfSample(i)
        /\ Cardinality(Usable) >= 5 =>
              result.status = "ok" /\ Len(result.value.pronostico) = 5

\* a date whose first midday sample lacks fields and whose later midday
\* sample is complete, in a feed that yields an entry of another date
C16_Witness ==
    /\ ForecastDone
    /\ result.status = "ok"
    /\ \E i \in FirstOfDate :
          /\ ~WellFormed(i)
          /\ DateOfSample(i) \in seen_dates
          /\ \E j \in MiddaySamples :
                j > i /\ WellFormed(j) /\ DateOfSample(j) = DateOfSample(i)

-----------------------------------------------------------------------------
(* Properties of the per-day loop (SpecDias) *)

AnalisisDone == op = "analizar_patron_semanal" /\ pc = "done"

\* the days of the forecast whose three fields are all numbers, and the
\* k-th of them in input order
EsNumerico(i) ==
    \A key \in {"temperatura", "humedad", "viento"} :
        ~("no_numericos" \in DOMAIN datos_diarios[i] /\ key \in datos_diarios[i]["no_numericos"])
Numericos(n) == {i \in 1..n : EsNumerico(i)}
Kth(S, k) == CHOOSE i \in S : Cardinality({j \in S : j < i}) = k - 1

InsufficientData(r) ==
    /\ r.status = "error"
    /\ r.type = "ValueError"
    /\ r.msg \in {"No se obtuvieron datos de pronostico",
                  "No se pudo procesar ningun dia del pronostico"}

\* C13: a day with a non-numeric temperatura, humedad or viento is skipped
\* and the call goes on: the report holds one pattern for each remaining
\* day, in input order.  The call fails, with the ValueError of missing
\* data, exactly when the forecast is empty or every day was skipped.
C13_NonNumericDaySkipped ==
    (AnalisisDone /\ ~CoordsInvalid(lat, lon)) =>
        LET N == Numericos(Len(datos_diarios)) IN
         /\ result.status \in {"ok", "error"}
         /\ result.status = "error" <=> N = {}
         /\ result.status = "error" => InsufficientData(result)
         /\ result.status = "ok" =>
              /\ Len(result.value.patrones_diarios) = Cardinality(N)
              /\ \A k \in 1..Cardinality(N) :
                    result.value.patrones_diarios[k].fecha = Kth(N, k)

\* a report was returned although a day was skipped, and a later day is in it
C13_Witness ==
    /\ AnalisisDone
    /\ result.status = "ok"
    /\ \E i, j \in 1..Len(datos_diarios) :
          /\ i < j
          /\ ~EsNumerico(i)
          /\ EsNumerico(j)
          /\ \E k \in 1..Len(result.value.patrones_diarios) :
                result.value.patrones_diarios[k].fecha = j

-----------------------------------------------------------------------------
(* Properties of calls in sequence (SpecLlamadas) *)

\* the call that has just ended had the inputs of the call before it
SameInputs ==
    /\ AnalisisDone
    /\ anterior.op = "analizar_patron_semanal"
    /\ anterior.lat = lat
    /\ anterior.lon = lon
    /\ CoordsInvalid(lat, lon) \/ anterior.data = data

\* C14: a call of analizar_patron_semanal that follows, on the same
\* analyser, a call with the same coordinates and the same provider data
\* answers what that call answered: the same report (patterns,
\* recommendations, alerts, summary) or the same error.
C14_SameInputsSameReport ==
    SameInputs => result = anterior.result

\* two calls in sequence with the same two-day feed have both returned a report
C14_Witness ==
    /\ SameInputs
    /\ result.status = "ok"
    /\ Len(result.value.patrones_diarios) = 2
    /\ anterior.result.status = "ok"

-----------------------------------------------------------------------------
(* The series and the patterns of the per-day loop (SpecDias) *)

\* the days the loop has consumed and not skipped, in input order
Procesados == Numericos(dia_idx)
Procesado(k) == datos_diarios[Kth(Procesados, k)]

\* the value a day holds under a key, 0 when it has none
ValorDe(dia, key) == IF key \in DOMAIN dia THEN dia[key] ELSE 0

\* the three series as the processed days give them, in tenths (humedad is
\* held in whole percent)
TemperaturasDe == [k \in 1..Cardinality(Procesados) |-> ValorDe(Procesado(k), "temperatura")]
HumedadesDe == [k \in 1..Cardinality(Procesados) |-> 10 * ValorDe(Procesado(k), "humedad")]
VientosDe == [k \in 1..Cardinality(Procesados) |-> ValorDe(Procesado(k), "viento")]

\* p is the mean of xs to the nearest tenth
IsMean(p, xs) == 2 * (p * Len(xs) - SumSeq(xs)) \in -Len(xs)..Len(xs)

\* C17: at every iteration of the per-day loop the three series and the
\* list of patterns have one element for each day consumed and not skipped,
\* in input order, and element k of each holds the values of the k-th such
\* day; so the means and the trends of the summary are those of the days
\* that have a pattern, and a skipped day is in none of them.
C17_SeriesMatchPatterns ==
    LET patrones == analisis_semanal.patrones_diarios IN
    /\ temperaturas = TemperaturasDe
    /\ humedades = HumedadesDe
    /\ vientos = VientosDe
    /\ Len(patrones) = Cardinality(Procesados)
    /\ \A k \in 1..Len(patrones) :
          /\ patrones[k].fecha = Kth(Procesados, k)
          /\ patrones[k].condiciones.temperatura.valor = temperaturas[k]
          /\ patrones[k].condiciones.humedad.valor = humedades[k]
          /\ patrones[k].condiciones.viento.valor = vientos[k]
    /\ (AnalisisDone /\ result.status = "ok") =>
          /\ result.value.patrones_diarios = patrones
          /\ IsMean(result.value.resumen.temperatura_promedio, TemperaturasDe)
          /\ IsMean(result.value.resumen.humedad_promedio, HumedadesDe)
          /\ IsMean(result.value.resumen.viento_promedio, VientosDe)
          /\ result.value.resumen.tendencias.temperatura =
                _interpretar_tendencia(_calcular_tendencia(Floats(TemperaturasDe)))
          /\ result.value.resumen.tendencias.humedad =
                _interpretar_tendencia(_calcular_tendencia(Floats(HumedadesDe)))

\* a report over two days of a forecast whose other day was skipped
C17_Witness ==
    /\ AnalisisDone
    /\ result.status = "ok"
    /\ Len(datos_diarios) = 3
    /\ Len(result.value.patrones_diarios) = 2
    /\ temperaturas[1] # temperaturas[2]

====
